---- MODULE Spec2Model ----
(***************************************************************************)
(* Octree_V1.1.py: a point octree.  An OctNode is a leaf holding a list of *)
(* objects or an inner node holding 8 branches; Octree.insertNode inserts  *)
(* an object, subdividing a leaf that would exceed MAX_OBJECTS_PER_CUBE;   *)
(* findPosition, findParent and printLeafNode read the tree.               *)
(*                                                                         *)
(* Coordinates and sizes are the program's floats in fixed point: one      *)
(* model unit is 1/Unit, so 90.0 is 90 * Unit.  Every halving the model    *)
(* performs within the recursion limit is exact (see Exact).               *)
(***************************************************************************)
EXTENDS Integers, Sequences, FiniteSets

\* Fixed-point unit of the float coordinates: 1.0 is Unit model units.
Unit == 2 ^ 10

\* A capacity of two objects for each leaf.
SmallCube == 5 - 3

\* MAX_OBJECTS_PER_CUBE, the most objects a leaf holds before it is subdivided.
MAX_OBJECTS_PER_CUBE == 5

\* The depth of nested insertNode calls after which the interpreter raises
\* "maximum recursion depth exceeded" (sys.getrecursionlimit(), 1000 in
\* CPython; small here).
RecursionLimit == 4

\* Copies of one position in the duplicate-position dataset.
MaxCopies == 6

\* Python's None, and a value that is not None.
PyNone == [isNone |-> TRUE]
PyList(s) == [isNone |-> FALSE, list |-> s]
PySome(v) == [isNone |-> FALSE, value |-> v]

\* DIRLOOKUP's keys, the branch labels (Octree_V1.1.py:57).
DIRLOOKUP == (-4) .. 3

\* root.branches[branch]: the index of an 8-element Python list that a
\* (possibly negative) subscript addresses.
PyIndex(branch) == IF branch < 0 THEN 8 + branch ELSE branch

\* OctNode.__init__ (isLeafNode True, 8 empty branches).
OctNode(position, size, data) ==
    [isNone |-> FALSE, position |-> position, size |-> size,
     isLeafNode |-> TRUE, data |-> PyList(data),
     branches |-> [i \in 0 .. 7 |-> PyNone]]

\* Octree.addNode
AddNode(position, size, objects) == OctNode(position, size, objects)

\* TestObject(name, position)
TestObject(name, position) == [name |-> name, position |-> position]

\* One term of findBranch's sum: Python 2 integer division floors.
BranchTermTrunc(upper, i) ==
    IF upper THEN -((4 \div (i + 1)) \div 2) ELSE (4 \div (i + 1)) \div 2

BranchTerm(upper, i) ==
    IF upper THEN ((-4) \div (i + 1)) \div 2 ELSE (4 \div (i + 1)) \div 2

\* Octree.findBranch: vec1 = root.position, vec2 = position, i = 0, 1, 2.
FindBranch(root, position) ==
    LET vec1 == root.position
        vec2 == position
    IN  BranchTerm(vec1[1] <= vec2[1], 0)
      + BranchTerm(vec1[2] <= vec2[2], 1)
      + BranchTerm(vec1[3] <= vec2[3], 2)

\* The if/elif ladder of insertNode that places the centre of a new node.
NewCenterSlip(pos, offset, branch) ==
    CASE branch = -4 -> <<pos[1] + offset, pos[2] + offset, pos[3] + offset>>
      [] branch = -3 -> <<pos[1] + offset, pos[2] + offset, pos[3] - offset>>
      [] branch = -2 -> <<pos[1] + offset, pos[2] - offset, pos[3] + offset>>
      [] branch = -1 -> <<pos[1] + offset, pos[2] - offset, pos[3] - offset>>
      [] branch = 0 -> <<pos[1] - offset, pos[2] + offset, pos[3] + offset>>
      [] branch = 1 -> <<pos[1] - offset, pos[2] + offset, pos[3] + offset>>
      [] branch = 2 -> <<pos[1] - offset, pos[2] - offset, pos[3] + offset>>
      [] branch = 3 -> <<pos[1] - offset, pos[2] - offset, pos[3] - offset>>
      [] OTHER -> <<0, 0, 0>>

NewCenter(pos, offset, branch) ==
    CASE branch = -4 -> <<pos[1] + offset, pos[2] + offset, pos[3] + offset>>
      [] branch = -3 -> <<pos[1] + offset, pos[2] + offset, pos[3] - offset>>
      [] branch = -2 -> <<pos[1] + offset, pos[2] - offset, pos[3] + offset>>
      [] branch = -1 -> <<pos[1] + offset, pos[2] - offset, pos[3] - offset>>
      [] branch = 0 -> <<pos[1] - offset, pos[2] + offset, pos[3] + offset>>
      [] branch = 1 -> <<pos[1] - offset, pos[2] + offset, pos[3] - offset>>
      [] branch = 2 -> <<pos[1] - offset, pos[2] - offset, pos[3] + offset>>
      [] branch = 3 -> <<pos[1] - offset, pos[2] - offset, pos[3] - offset>>
      [] OTHER -> <<0, 0, 0>>

\* insertNode on an empty slot (root == None): a new leaf holding [objData].
NewLeaf(size, parent, objData) ==
    LET pos == parent.position
        offset == size \div 2
        branch == FindBranch(parent, objData.position)
    IN  AddNode(NewCenter(pos, offset, branch), size, <<objData>>)

\* What a call hands back: the node as the call left it, and whether the
\* call ended by raising instead of returning.
Returned(node) == [node |-> node, raised |-> FALSE]
Raised(node) == [node |-> node, raised |-> TRUE]

RECURSIVE InsertNode(_, _, _, _, _)
RECURSIVE Distribute(_, _, _, _, _)

\* The loop "for ob in objList" of a subdivision, from objList[k] on.  A call
\* that raises ends the loop; the assignment to the branch is then skipped,
\* but the child was changed in place.
Distribute(root, objList, k, newSize, depth) ==
    IF k > Len(objList) THEN Returned(root)
    ELSE LET ob == objList[k]
             branch == FindBranch(root, ob.position)
             r == InsertNode(root.branches[PyIndex(branch)], newSize, root, ob,
                             depth + 1)
             after == [root EXCEPT !.branches[PyIndex(branch)] = r.node]
         IN  IF r.raised THEN Raised(after)
             ELSE Distribute(after, objList, k + 1, newSize, depth)

\* The subdivision of a full leaf (len(root.data) == MAX_OBJECTS_PER_CUBE).
SubdivideKeepData(root, objData, depth) ==
    LET objList == Append(root.data.list, objData)
        cleared == [root EXCEPT !.data = PyList(objList), !.isLeafNode = FALSE]
        newSize == root.size \div 2
    IN  Distribute(cleared, objList, 1, newSize, depth)

SubdivideOldList(root, objData, depth) ==
    LET objList == root.data.list
        cleared == [root EXCEPT !.data = PyNone, !.isLeafNode = FALSE]
        newSize == root.size \div 2
    IN  Distribute(cleared, objList, 1, newSize, depth)

Subdivide(root, objData, depth) ==
    LET objList == Append(root.data.list, objData)
        cleared == [root EXCEPT !.data = PyNone, !.isLeafNode = FALSE]
        newSize == root.size \div 2
    IN  Distribute(cleared, objList, 1, newSize, depth)

\* insertNode on a leaf (elif root.isLeafNode).
InsertLeafOffByOne(root, objData, depth) ==
    IF Len(root.data.list) <= MAX_OBJECTS_PER_CUBE
    THEN Returned([root EXCEPT !.data = PyList(Append(root.data.list, objData))])
    ELSE Returned(root)

InsertLeaf(root, objData, depth) ==
    IF Len(root.data.list) < MAX_OBJECTS_PER_CUBE
    THEN Returned([root EXCEPT !.data = PyList(Append(root.data.list, objData))])
    ELSE IF Len(root.data.list) = MAX_OBJECTS_PER_CUBE
    THEN Subdivide(root, objData, depth)
    ELSE Returned(root)

\* Octree.insertNode, as the call at nesting depth `depth`.
InsertNodeShifted(root, size, parent, objData, depth) ==
    IF depth > RecursionLimit THEN Raised(root)
    ELSE IF root.isNone THEN Returned(NewLeaf(size, parent, objData))
    ELSE IF root.position # objData.position /\ root.isLeafNode = FALSE
    THEN LET branch == FindBranch(root, objData.position) + 4
             newSize == root.size \div 2
             r == InsertNode(root.branches[PyIndex(branch)], newSize, root,
                             objData, depth + 1)
             after == [root EXCEPT !.branches[PyIndex(branch)] = r.node]
         IN  IF r.raised THEN Raised(after) ELSE Returned(after)
    ELSE IF root.isLeafNode THEN InsertLeaf(root, objData, depth)
    ELSE Returned(root)

InsertNode(root, size, parent, objData, depth) ==
    IF depth > RecursionLimit THEN Raised(root)
    ELSE IF root.isNone THEN Returned(NewLeaf(size, parent, objData))
    ELSE IF root.position # objData.position /\ root.isLeafNode = FALSE
    THEN LET branch == FindBranch(root, objData.position)
             newSize == root.size \div 2
             r == InsertNode(root.branches[PyIndex(branch)], newSize, root,
                             objData, depth + 1)
             after == [root EXCEPT !.branches[PyIndex(branch)] = r.node]
         IN  IF r.raised THEN Raised(after) ELSE Returned(after)
    ELSE IF root.isLeafNode THEN InsertLeaf(root, objData, depth)
    ELSE Returned(root)

RECURSIVE FindPosition(_, _)
\* Octree.findPosition
FindPosition(root, position) ==
    IF root.isNone THEN PyNone
    ELSE IF root.isLeafNode THEN root.data
    ELSE LET branch == FindBranch(root, position)
         IN  FindPosition(root.branches[PyIndex(branch)], position)

RECURSIVE FindParent(_, _)
\* Octree.findParent
FindParent(root, position) ==
    IF root.isNone THEN PyNone
    ELSE IF root.isLeafNode THEN PySome(root.position)
    ELSE LET branch == FindBranch(root, position)
         IN  FindParent(root.branches[PyIndex(branch)], position)

RECURSIVE PrintLeafNode(_, _)
RECURSIVE PrintBranches(_, _, _)
\* The loop "while branch<=3" of printLeafNode.
PrintBranches(root, branch, arrays) ==
    IF branch > 3 THEN arrays
    ELSE PrintBranches(root, branch + 1,
                       PrintLeafNode(root.branches[PyIndex(branch)], arrays))

\* Octree.printLeafNode; arrays is the pair of global arrays
\* LEAFNODE_POINTS_ARRAY and LEAFNODE_PARENT_LOCATION_ARRAY.
PrintLeafNode(root, arrays) ==
    IF root.isNone THEN arrays
    ELSE IF root.isLeafNode
    THEN [points |-> Append(arrays.points, root.data),
          locations |-> Append(arrays.locations, root.position)]
    ELSE PrintBranches(root, -4, arrays)

\* The two global arrays as __main__ creates them.
EmptyArrays == [points |-> <<>>, locations |-> <<>>]

----------------------------------------------------------------------------
\* The driver (__main__): build a tree, insert the points of a dataset.

P(x, y, z) == <<x, y, z>>
\* Positions given in quarters, so that 11.25 = 45/4 is a whole number.
Q(x, y, z) == <<x * (Unit \div 4), y * (Unit \div 4), z * (Unit \div 4)>>

Origin == Q(0, 0, 0)
\* The three points __main__ inserts first.
A1 == Q(4, 8, 12)
A2 == Q(-20, -20, -20)
A3 == Q(45, -45, -45)
\* Points of other octants of a 90-wide world.
E1 == Q(-40, 80, 120)
E2 == Q(20, -24, 28)
E3 == Q(-40, 80, -120)
\* Points of the octant of (1,2,3); C1 is the centre of that octant.
C1 == Q(90, 90, 90)
B1 == Q(120, 40, 40)
B2 == Q(40, 120, 40)
B3 == Q(40, 40, 120)

Points == {Origin, A1, A2, A3, E1, E2, E3, C1, B1, B2, B3}

Bag(S, n) == [p \in Points |-> IF p \in S THEN n ELSE 0]
Plus(b1, b2) == [p \in Points |-> b1[p] + b2[p]]

\* Six points in six octants, and the origin.
SpreadData == Bag({A1, A2, A3, E1, E2, E3, Origin}, 1)
\* Six points of one octant; two of them twice.
OneBranchData == Plus(Bag({Origin, A1, C1, B1, B2, B3}, 1), Bag({Origin, C1}, 1))
\* One position MaxCopies times.
DuplicateData == Plus(Bag({A2}, MaxCopies), Bag({A1}, 1))

Datasets == {SpreadData, OneBranchData, DuplicateData}

\* The world sizes a caller may pass to Octree(worldSize).
WorldSizes == {90 * Unit, 0, -(90 * Unit)}

\* The size argument __main__ passes to insertNode (50.000).
MainSize == 50 * Unit

InBounds(position, size) ==
    \A i \in 1 .. 3 : -size <= 2 * position[i] /\ 2 * position[i] <= size

VARIABLES
    myTree,     \* the Octree object (root, worldSize), PyNone before it is built
    dataset,    \* the points still to insert, as a bag
    inserted,   \* the objects passed to insertNode so far, in call order
    raised      \* an insertNode call ended in an exception

vars == <<myTree, dataset, inserted, raised>>

Init ==
    /\ myTree = PyNone
    /\ dataset \in Datasets
    /\ inserted = <<>>
    /\ raised = FALSE

\* Octree.__init__
Octree(worldSize) ==
    [isNone |-> FALSE, root |-> AddNode(P(0, 0, 0), worldSize, <<>>),
     worldSize |-> worldSize]

\* myTree = Octree(worldSize)
Construct(worldSize) ==
    /\ myTree.isNone
    /\ myTree' = Octree(worldSize)
    /\ UNCHANGED <<dataset, inserted, raised>>

\* myTree.insertNode(myTree.root, 50.000, myTree.root, TestObject(name, pos))
\* for a position of the dataset that lies within the world.
Insert(pos) ==
    /\ ~myTree.isNone
    /\ ~raised
    /\ dataset[pos] > 0
    /\ InBounds(pos, myTree.worldSize)
    /\ LET ob == TestObject(Len(inserted) + 1, pos)
           r == InsertNode(myTree.root, MainSize, myTree.root, ob, 1)
       IN  /\ myTree' = [myTree EXCEPT !.root = r.node]
           /\ raised' = r.raised
           /\ inserted' = Append(inserted, ob)
    /\ dataset' = [dataset EXCEPT ![pos] = @ - 1]

Next ==
    \/ \E worldSize \in WorldSizes : Construct(worldSize)
    \/ \E pos \in Points : Insert(pos)

Spec == Init /\ [][Next]_vars

----------------------------------------------------------------------------
\* Reading the tree.

RECURSIVE NodeList(_)
RECURSIVE BranchNodes(_, _)
\* The nodes in branches i .. 7 of root, and below them.
BranchNodes(root, i) ==
    IF i > 7 THEN <<>>
    ELSE NodeList(root.branches[i]) \o BranchNodes(root, i + 1)

\* Every node of the tree below (and including) root, parents first.
NodeList(root) ==
    IF root.isNone THEN <<>> ELSE <<root>> \o BranchNodes(root, 0)

RECURSIVE Concat(_, _)
\* The lists seq[k], seq[k+1], ... of Python lists joined into one sequence.
Concat(seq, k) ==
    IF k > Len(seq) THEN <<>> ELSE seq[k].list \o Concat(seq, k + 1)

\* The leaves as printLeafNode reports them, from empty global arrays.
LeavesOf(root) == PrintLeafNode(root, EmptyArrays)

\* Every object printLeafNode reports among the leaves below root, leaf by
\* leaf.
ObjectsOf(root) == Concat(LeavesOf(root).points, 1)

\* How often object ob occurs in the sequence objs.
Count(objs, ob) == Cardinality({j \in 1 .. Len(objs) : objs[j] = ob})

Positions(objs) == [k \in 1 .. Len(objs) |-> objs[k].position]

Distinct(seq) == \A i, j \in 1 .. Len(seq) : i # j => seq[i] # seq[j]

\* The branch label of the octant given by the three per-axis comparisons
\* "position >= centre" (TRUE is the upper half), as DIRLOOKUP names them:
\* right/left on axis 0, up/down on axis 1, forward/back on axis 2.
Octant(right, up, forward) ==
    (IF right THEN -4 ELSE 0) + (IF up THEN 0 ELSE 2) + (IF forward THEN 0 ELSE 1)

\* The halves <<right, up, forward>> that branch label b stands for.
Halves(b) ==
    CHOOSE h \in BOOLEAN \X BOOLEAN \X BOOLEAN : Octant(h[1], h[2], h[3]) = b

\* The positions next to and on a centre: every combination of below, equal
\* and above on the three axes.
Around(center) ==
    {<<center[1] + d[1], center[2] + d[2], center[3] + d[3]>> :
        d \in {-1, 0, 1} \X {-1, 0, 1} \X {-1, 0, 1}}

\* One position for each of the 8 combinations of below and not below.
Corners(center) ==
    {<<center[1] + d[1], center[2] + d[2], center[3] + d[3]>> :
        d \in {-1, 0} \X {-1, 0} \X {-1, 0}}

RECURSIVE TargetPath(_, _)
\* The list indices insertNode follows from root for a position, down to the
\* leaf it reaches; PyNone when it reaches no leaf.
TargetPath(root, position) ==
    IF root.isNone THEN PyNone
    ELSE IF root.position # position /\ ~root.isLeafNode
    THEN LET i == PyIndex(FindBranch(root, position))
             rest == TargetPath(root.branches[i], position)
         IN  IF rest.isNone THEN PyNone ELSE PySome(<<i>> \o rest.value)
    ELSE IF root.isLeafNode THEN PySome(<<>>)
    ELSE PyNone

RECURSIVE NodeAt(_, _)
NodeAt(root, path) ==
    IF path = <<>> THEN root ELSE NodeAt(root.branches[Head(path)], Tail(path))

Built == ~myTree.isNone

----------------------------------------------------------------------------
\* Sanity of the model's arithmetic and of its recursion limit.

\* Every halving was exact: fixed point loses nothing against the floats.
Exact ==
    Built =>
        LET nodes == NodeList(myTree.root)
        IN  \A m \in 1 .. Len(nodes) : \A i \in 0 .. 7 :
                ~nodes[m].branches[i].isNone =>
                    /\ 2 * nodes[m].branches[i].size = nodes[m].size
                    /\ nodes[m].size % 4 = 0

\* Only MAX_OBJECTS_PER_CUBE + 1 objects at one position exhaust the recursion.
RaisedOnlyByDuplicates ==
    raised => \E pos \in Points :
        Cardinality({k \in 1 .. Len(inserted) : inserted[k].position = pos})
            > MAX_OBJECTS_PER_CUBE

----------------------------------------------------------------------------
\* C1: after any sequence of in-bounds inserts that returned, every inserted
\* object is held in exactly one leaf and is in the list findPosition returns
\* for the object's own position, whatever node centres the positions
\* coincide with.
C1_EveryItemRetrievable ==
    (Built /\ ~raised) =>
        LET objs == ObjectsOf(myTree.root)
        IN  \A k \in 1 .. Len(inserted) :
                LET ob == inserted[k]
                    found == FindPosition(myTree.root, ob.position)
                IN  /\ Count(objs, ob) = 1
                    /\ ~found.isNone
                    /\ \E j \in 1 .. Len(found.list) : found.list[j] = ob

\* C2: for every leaf printLeafNode reports and every object in that leaf's
\* list, findParent of the object's position returns that leaf's centre.
C2_Containment ==
    Built =>
        LET arrays == LeavesOf(myTree.root)
        IN  \A i \in 1 .. Len(arrays.points) :
                \A j \in 1 .. Len(arrays.points[i].list) :
                    FindParent(myTree.root, arrays.points[i].list[j].position)
                        = PySome(arrays.locations[i])

\* A tree subdivided twice, with objects in the leaves two levels down.
C2_Witness ==
    /\ Built
    /\ ~raised
    /\ \E i \in 0 .. 7 :
        /\ ~myTree.root.branches[i].isNone
        /\ ~myTree.root.branches[i].isLeafNode
        /\ Cardinality({j \in 0 .. 7 :
               ~myTree.root.branches[i].branches[j].isNone}) >= 4

\* Every leaf holds at most MAX_OBJECTS_PER_CUBE objects.
LeavesWithinCapacity ==
    Built =>
        LET nodes == NodeList(myTree.root)
        IN  \A m \in 1 .. Len(nodes) :
                nodes[m].isLeafNode =>
                    Len(nodes[m].data.list) <= MAX_OBJECTS_PER_CUBE

\* An insert that reaches a leaf holding MAX_OBJECTS_PER_CUBE objects leaves
\* that node an inner node.
FullLeafSubdivided ==
    (inserted' # inserted) =>
        LET ob == inserted'[Len(inserted')]
            target == TargetPath(myTree.root, ob.position)
        IN  (~target.isNone) =>
            (Len(NodeAt(myTree.root, target.value).data.list)
                    = MAX_OBJECTS_PER_CUBE
                => ~NodeAt(myTree'.root, target.value).isLeafNode)

\* C3: between top-level insert calls every leaf holds at most
\* MAX_OBJECTS_PER_CUBE objects, and the insert call that takes a leaf to
\* MAX_OBJECTS_PER_CUBE + 1 objects ends with that node an inner node.
C3_Capacity == []LeavesWithinCapacity /\ [][FullLeafSubdivided]_vars

\* A subdivided tree with a full leaf.
C3_Witness ==
    /\ Built
    /\ ~myTree.root.isLeafNode
    /\ \E i \in 0 .. 7 :
        /\ ~myTree.root.branches[i].isNone
        /\ myTree.root.branches[i].isLeafNode
        /\ Len(myTree.root.branches[i].data.list) = MAX_OBJECTS_PER_CUBE

\* C4: for every node centre and every position below, on or above it on each
\* axis, findBranch returns the label of the three comparisons
\* position >= centre (a tie is the upper half); the 8 combinations of the
\* comparisons give 8 different labels, all among DIRLOOKUP's -4..3, and these
\* address 8 different elements of the 8-element branches list.
C4_OctantSelection ==
    Built =>
        LET nodes == NodeList(myTree.root)
        IN  \A m \in 1 .. Len(nodes) :
                LET n == nodes[m]
                    labels == {FindBranch(n, p) : p \in Corners(n.position)}
                IN  /\ \A p \in Around(n.position) :
                           FindBranch(n, p) = Octant(p[1] >= n.position[1],
                                                    p[2] >= n.position[2],
                                                    p[3] >= n.position[3])
                    /\ Cardinality(labels) = 8
                    /\ labels \subseteq DIRLOOKUP
                    /\ {PyIndex(b) : b \in labels} = 0 .. 7

\* An object on the centre of the root sits in the all-upper branch (label -4,
\* list index 4) of a subdivided root.
C4_Witness ==
    /\ Built
    /\ ~myTree.root.isLeafNode
    /\ inserted[1].position = myTree.root.position
    /\ FindBranch(myTree.root, inserted[1].position) = -4
    /\ ~myTree.root.branches[4].isNone
    /\ Count(ObjectsOf(myTree.root.branches[4]), inserted[1]) = 1

\* C5: for every inner node and every occupied branch b, the child's size is
\* half the node's and its centre is the node's centre plus size/4 on an axis
\* that b classifies as upper and minus size/4 on an axis it classifies as
\* lower; children in different branches have different centres.
C5_OctantPartition ==
    Built =>
        LET nodes == NodeList(myTree.root)
        IN  \A m \in 1 .. Len(nodes) : \A b \in DIRLOOKUP :
                LET n == nodes[m]
                    child == n.branches[PyIndex(b)]
                IN  (~n.isLeafNode /\ ~child.isNone) =>
                        /\ 2 * child.size = n.size
                        /\ \A i \in 1 .. 3 :
                            4 * (child.position[i] - n.position[i])
                                = IF Halves(b)[i] THEN n.size ELSE -n.size
                        /\ \A c \in DIRLOOKUP :
                            (c # b /\ ~n.branches[PyIndex(c)].isNone) =>
                                n.branches[PyIndex(c)].position # child.position

\* A root subdivided into six octants.
C5_Witness ==
    /\ Built
    /\ ~myTree.root.isLeafNode
    /\ Cardinality({i \in 0 .. 7 : ~myTree.root.branches[i].isNone}) >= 6

\* Scenario A: a 90-wide tree into which exactly (1,2,3), (-5,-5,-5) and
\* (11.25,-11.25,-11.25) were inserted.
ScenarioA ==
    /\ Built
    /\ myTree.worldSize = 90 * Unit
    /\ Positions(inserted) = <<A1, A2, A3>>

\* C6 as stated: in Scenario A findPosition((1,2,3)) returns a one-object list
\* holding the object at (1,2,3), and the three objects lie in three leaves.
C6_ScenarioA_Original ==
    ScenarioA =>
        /\ Positions(FindPosition(myTree.root, A1).list) = <<A1>>
        /\ Len(LeavesOf(myTree.root).points) = 3

\* C6, amended: in Scenario A findPosition((1,2,3)) returns a three-object
\* list holding all three objects, and the three objects lie in one leaf,
\* the root.
C6_ScenarioA ==
    ScenarioA =>
        /\ FindPosition(myTree.root, A1) = PyList(inserted)
        /\ myTree.root.isLeafNode
        /\ LeavesOf(myTree.root).points = <<PyList(inserted)>>
        /\ LeavesOf(myTree.root).locations = <<P(0, 0, 0)>>

C6_Witness == ScenarioA

\* C7: a tree exists only for a positive worldSize, and its root is then an
\* empty leaf at the origin of size worldSize.
C7_NonPositiveWorldRejected ==
    Built =>
        /\ myTree.worldSize > 0
        /\ (inserted = <<>> =>
                myTree.root = AddNode(P(0, 0, 0), myTree.worldSize, <<>>))

\* C8: between top-level operations a leaf has an object list and 8 empty
\* branches, and an inner node has no object list (data is None); every
\* object the tree holds is in a leaf.
C8_LeafXorInternal ==
    Built =>
        LET nodes == NodeList(myTree.root)
        IN  /\ \A m \in 1 .. Len(nodes) :
                  /\ nodes[m].isLeafNode =>
                        /\ ~nodes[m].data.isNone
                        /\ \A i \in 0 .. 7 : nodes[m].branches[i].isNone
                  /\ ~nodes[m].isLeafNode => nodes[m].data.isNone

\* A tree with inner nodes on two levels and leaves below them.
C8_Witness ==
    /\ Built
    /\ ~myTree.root.isLeafNode
    /\ \E h \in 0 .. 7 :
        /\ ~myTree.root.branches[h].isNone
        /\ ~myTree.root.branches[h].isLeafNode
        /\ \E i \in 0 .. 7 :
            /\ ~myTree.root.branches[h].branches[i].isNone
            /\ myTree.root.branches[h].branches[i].isLeafNode

\* C9: when an insert reaches a leaf holding exactly MAX_OBJECTS_PER_CUBE
\* objects and the MAX_OBJECTS_PER_CUBE + 1 objects have pairwise distinct
\* positions, the call returns, the node is then an inner node and
\* printLeafNode reports each of those objects exactly once among the leaves
\* below it.
C9_Promotion ==
    [][(inserted' # inserted) =>
        LET ob == inserted'[Len(inserted')]
            target == TargetPath(myTree.root, ob.position)
        IN  (~target.isNone) =>
            LET leaf == NodeAt(myTree.root, target.value)
                objs == Append(leaf.data.list, ob)
                node == NodeAt(myTree'.root, target.value)
            IN  (Len(leaf.data.list) = MAX_OBJECTS_PER_CUBE
                    /\ Distinct(Positions(objs))) =>
                LET reported == ObjectsOf(node)
                IN  /\ ~raised'
                    /\ ~node.isLeafNode
                    /\ Len(reported) = Len(objs)
                    /\ \A k \in 1 .. Len(objs) : Count(reported, objs[k]) = 1
      ]_vars

\* Scenario B just after the sixth insert: six objects at distinct positions,
\* all in one branch of the root, which has been subdivided.
C9_Witness ==
    /\ Built
    /\ Len(inserted) = MAX_OBJECTS_PER_CUBE + 1
    /\ Distinct(Positions(inserted))
    /\ \A k \in 1 .. Len(inserted) :
        FindBranch(myTree.root, inserted[k].position)
            = FindBranch(myTree.root, inserted[1].position)
    /\ ~myTree.root.isLeafNode
    /\ Len(ObjectsOf(myTree.root)) = Len(inserted)

\* C10: every insertNode call on an in-bounds object returns after finitely
\* many nested calls; none exhausts the recursion, also not for positions
\* equal to positions already stored.
C10_InsertReturns == ~raised

====
